---- MODULE Spec2Model ----
(***************************************************************************)
(* Voice-activated recorder: the three scripts test.py, test2.py and       *)
(* testson.py.  Each script is one consumer (the main thread: start-up,    *)
(* capture loop, exception handlers) fed by one producer (the audio        *)
(* callback) through the unbounded queue q.  The consumer is modelled at   *)
(* statement granularity, because a KeyboardInterrupt can be raised        *)
(* between any two statements of the try body.                             *)
(*                                                                         *)
(* Frames are identified by their arrival number 1, 2, 3, ...              *)
(* Time is counted in samples: one block is FrameSize samples, one second  *)
(* is samplerate samples, and the clock advances by one block every time   *)
(* the callback delivers a block.                                          *)
(***************************************************************************)
EXTENDS Integers, Sequences, FiniteSets, TLC

\* ------------------------------------------------------------------ bounds
MaxFrames == 10
MaxRecFrames == 6
MaxQueue == 2
MaxBacklog == 7

\* ------------------------------------------------------- program constants
FrameSize == 8000
buffer_duration == 1
TestSilence == 2
TestsonSilence == 3
PostRoll == 1

Variants == {"test", "test2", "testson"}
SampleRates == {8000, 16000}
SilenceArgs == {1, 2}

None == -1

VARIABLES
    variant,            \* which script runs
    samplerate,         \* args.samplerate
    silence,            \* args.silence (test2.py)
    backlog,            \* longest queue considered in this run
    pc,                 \* position of the main thread
    defined,            \* the loop state (recording, audio_data, ...) is bound
    q,                  \* queue.Queue()
    data,               \* the frame being processed (0: none yet)
    recording,
    audio_data,
    silence_timer,      \* test.py, test2.py: deadline, or None
    silence_start,      \* testson.py: start of the silence, or None
    last_voice_activity,
    pre_speech_buffer,
    current_time,       \* testson.py: the time read on line 108
    now,                \* time.time(), in samples
    files,              \* the destination file and test2.py's temporary file
    exit,               \* "running", "ok", "error" or "traceback"
    \* ---- history (not read by the program)
    produced,           \* number of blocks delivered by the callback
    consumed,           \* frames dequeued, in order
    fed,                \* frames given to rec.AcceptWaveform, in order
    writes,             \* write_wave calls: <<[file, frames]>>
    hist                \* record of observations, see HistInit

vars == <<variant, samplerate, silence, backlog, pc, defined, q, data, recording,
          audio_data, silence_timer, silence_start, last_voice_activity,
          pre_speech_buffer, current_time, now, files, exit, produced, consumed, fed,
          writes, hist>>

cfgVars == <<variant, samplerate, silence, backlog>>
loopVars == <<recording, audio_data, silence_timer, silence_start,
              last_voice_activity, pre_speech_buffer, current_time>>
ioVars == <<q, now, produced>>

\* ----------------------------------------------------------------- helpers
Min(a, b) == IF a < b THEN a ELSE b
Max(a, b) == IF a > b THEN a ELSE b

Range(a, b) == [i \in 1..Max(b - a + 1, 0) |-> a + i - 1]

\* Python's  xs[:n]  (a negative n counts from the end).
SliceTo(xs, n) ==
    IF n >= 0 THEN SubSeq(xs, 1, Min(n, Len(xs)))
    ELSE SubSeq(xs, 1, Max(Len(xs) + n, 0))

NoFile == [exists |-> FALSE, rate |-> 0, frames |-> <<>>]
\* A destination file left by an earlier run: one frame (written 0) at the
\* lowest of the sample rates.
OldRate == CHOOSE r \in SampleRates : \A s \in SampleRates : r <= s
OldAudio(r) == [exists |-> TRUE, rate |-> r, frames |-> <<0>>]

\* What  wave.open(name, 'wb') ... writeframes(b''.join(frames))  leaves.
WaveFile(rate, frames) == [exists |-> TRUE, rate |-> rate, frames |-> frames]

HistInit ==
    [interrupted |-> FALSE,     \* a KeyboardInterrupt was raised
     intPc       |-> "",        \* where it was raised
     intRec      |-> FALSE,     \* recording, when it was raised
     intOpen     |-> FALSE,     \* a Segment was in progress, when it was raised
     intAudio    |-> <<>>,      \* audio_data, when it was raised
     everRec     |-> FALSE,     \* recording was set to True at some point
     startedBy   |-> "none",    \* "amplitude" or "text": what set it
     detFail     |-> FALSE,     \* the detector raised
     failRec     |-> FALSE,     \* recording, when the detector raised
     verdict     |-> "none",    \* verdict of the frame being processed
     lastSpeech  |-> 0,         \* last frame with a speech verdict
     firstSilent |-> 0,         \* first silent frame after lastSpeech
     armedAt     |-> 0,         \* frame on which the timer was last armed
     phase       |-> "lead",    \* shape of the amplitude verdicts so far
     nLead       |-> 0,
     nSpeech     |-> 0,
     nTail       |-> 0,
     lockstep    |-> TRUE,      \* every frame was processed as it arrived
     removed     |-> <<>>,      \* frames cut by the trailing trim
     startFrame  |-> 0,         \* frame on which recording was set to True
     dueAtGet    |-> FALSE,     \* test.py, test2.py: the armed timer had run
                                \* out when the current frame was dequeued
     destWrites  |-> 0,         \* number of times the destination was written
     initDest    |-> NoFile]    \* the destination file at start

\* ------------------------------------------------------------------- Init
InitLoop ==
    /\ pc = "query"
    /\ defined = FALSE
    /\ q = <<>>
    /\ data = 0
    /\ recording = FALSE
    /\ audio_data = <<>>
    /\ silence_timer = None
    /\ silence_start = None
    /\ last_voice_activity = None
    /\ pre_speech_buffer = <<>>
    /\ current_time = None
    /\ now = 0
    /\ exit = "running"
    /\ produced = 0
    /\ consumed = <<>>
    /\ fed = <<>>
    /\ writes = <<>>

Init ==
    /\ variant \in Variants
    /\ samplerate \in SampleRates
    /\ silence \in (IF variant = "test2" THEN SilenceArgs ELSE {TestSilence})
    /\ backlog = MaxQueue
    /\ \E d \in {NoFile, OldAudio(OldRate)} :
          /\ files = [dest |-> d, temp |-> NoFile]
          /\ hist = [HistInit EXCEPT !.initDest = d]
    /\ InitLoop

\* testson.py alone, with a consumer that may fall MaxBacklog blocks behind.
InitStall ==
    /\ variant = "testson"
    /\ samplerate \in SampleRates
    /\ silence = TestSilence
    /\ backlog = MaxBacklog
    /\ files = [dest |-> NoFile, temp |-> NoFile]
    /\ hist = HistInit
    /\ InitLoop


\* ------------------------------------------------------------ observations
\* The verdict the state machine acts on for the current frame.
Judge(h, v) ==
    [h EXCEPT !.verdict = v,
              !.lastSpeech = IF v = "speech" THEN data ELSE @,
              !.firstSilent = IF v = "speech" THEN 0
                              ELSE IF v = "silence" /\ @ = 0 THEN data
                              ELSE @]

\* Shape of the amplitude verdicts: silent^nLead speech^nSpeech silent^nTail.
Shape(h, loud) ==
    IF h.phase = "other" THEN h
    ELSE IF loud THEN
        IF h.phase = "tail"
        THEN [h EXCEPT !.phase = "other", !.nLead = 0, !.nSpeech = 0, !.nTail = 0]
        ELSE [h EXCEPT !.phase = "speech", !.nSpeech = @ + 1]
    ELSE
        IF h.phase = "lead"
        THEN [h EXCEPT !.nLead = @ + 1]
        ELSE [h EXCEPT !.phase = "tail", !.nTail = @ + 1]

\* ------------------------------------------------------------------- sink
write_wave(file, frames) ==
    /\ files' = [files EXCEPT ![file] = WaveFile(samplerate, frames)]
    /\ writes' = Append(writes, [file |-> file, frames |-> frames])

\* test2.py: opens the temporary file for reading and the final file with
\* mode 'wb' (which truncates it), copies the parameters and then the frames.
append_wave(temp_filename, final_filename) ==
    files' = [files EXCEPT ![final_filename] =
                 WaveFile(files[temp_filename].rate, files[temp_filename].frames)]

\* --------------------------------------------------------------- start-up
StartPcs == {"query", "model", "temp", "stream", "init"}

QueryDevice ==
    /\ pc = "query"
    /\ pc' = "model"
    /\ UNCHANGED <<cfgVars, defined, data, loopVars, ioVars, files, exit,
                   consumed, fed, writes, hist>>

LoadModel ==
    /\ pc = "model"
    /\ pc' = IF variant = "test2" THEN "temp" ELSE "stream"
    /\ UNCHANGED <<cfgVars, defined, data, loopVars, ioVars, files, exit,
                   consumed, fed, writes, hist>>

create_wave_header ==
    /\ pc = "temp"
    /\ files' = [files EXCEPT !["temp"] = WaveFile(samplerate, <<>>)]
    /\ pc' = "stream"
    /\ UNCHANGED <<cfgVars, defined, data, loopVars, ioVars, exit,
                   consumed, fed, writes, hist>>

\* sd.RawInputStream(...) either starts the stream or raises (bad device,
\* unsupported sample rate).
OpenStream ==
    /\ pc = "stream"
    /\ \/ pc' = "init"
       \/ pc' = "except"
    /\ UNCHANGED <<cfgVars, defined, data, loopVars, ioVars, files, exit,
                   consumed, fed, writes, hist>>

InitState ==
    /\ pc = "init"
    /\ defined' = TRUE
    /\ recording' = FALSE
    /\ audio_data' = <<>>
    /\ silence_timer' = None
    /\ silence_start' = None
    /\ last_voice_activity' = None
    /\ pre_speech_buffer' = <<>>
    /\ UNCHANGED current_time
    /\ pc' = "get"
    /\ UNCHANGED <<cfgVars, data, ioVars, files, exit, consumed, fed,
                   writes, hist>>

\* --------------------------------------------------------------- producer
TestPcs == {"t82", "t87", "t88", "t90", "t91", "t93", "t97", "t98", "t99",
            "t104"}
Test2Pcs == {"a107", "a112", "a113", "a114", "a116", "a120", "a121",
             "a122", "a123", "a128"}
TestsonPcs == {"s88", "s93", "s96", "s97", "s99", "s100", "s101", "s104",
               "s107", "s108", "s112", "s116", "s117", "s118", "s122", "s126",
               "s127"}
LoopPcs == {"get"} \cup TestPcs \cup Test2Pcs \cup TestsonPcs
StreamPcs == {"init"} \cup LoopPcs
TryPcs == StartPcs \cup LoopPcs

\* The audio callback: one block every FrameSize samples, never blocking.
callback ==
    /\ pc \in StreamPcs
    /\ produced < (IF variant = "testson" THEN MaxFrames ELSE MaxRecFrames)
    /\ Len(q) < backlog
    /\ produced' = produced + 1
    /\ q' = Append(q, produced + 1)
    /\ now' = now + FrameSize
    /\ hist' = [hist EXCEPT !.lockstep = @ /\ pc = "get" /\ q = <<>>]
    /\ UNCHANGED <<cfgVars, pc, defined, data, loopVars, files, exit,
                   consumed, fed, writes>>

\* ------------------------------------------------------ consumer: q.get()
\* q.get() handing out the newest block instead of the oldest (a faulty
\* variant).
Get_Lifo ==
    /\ pc = "get"
    /\ q # <<>>
    /\ data' = q[Len(q)]
    /\ q' = SubSeq(q, 1, Len(q) - 1)
    /\ consumed' = Append(consumed, q[Len(q)])
    /\ hist' = [hist EXCEPT !.verdict = "none", !.dueAtGet = FALSE]
    /\ pc' = CASE variant = "test" -> "t82"
               [] variant = "test2" -> "a107"
               [] variant = "testson" -> "s88"
    /\ UNCHANGED <<cfgVars, defined, loopVars, now, produced, files, exit,
                   fed, writes>>

Get ==
    /\ pc = "get"
    /\ q # <<>>
    /\ data' = Head(q)
    /\ q' = Tail(q)
    /\ consumed' = Append(consumed, Head(q))
    /\ hist' = [hist EXCEPT !.verdict = "none",
                            !.dueAtGet = /\ variant \in {"test", "test2"}
                                         /\ recording
                                         /\ silence_timer # None
                                         /\ now > silence_timer]
    /\ pc' = CASE variant = "test" -> "t82"
               [] variant = "test2" -> "a107"
               [] variant = "testson" -> "s88"
    /\ UNCHANGED <<cfgVars, defined, loopVars, now, produced, files, exit,
                   fed, writes>>

\* ------------------------------------------------------- test.py, the loop
\* What rec.AcceptWaveform(data) / rec.Result() can give for one frame.
RecOutcomes == {"pending", "empty", "text", "raise"}

VerdictOf(r) == CASE r = "text" -> "speech"
                  [] r = "empty" -> "silence"
                  [] OTHER -> "pending"

\* lines 82-85, 92, 102
Test_AcceptWaveform ==
    /\ pc = "t82"
    /\ fed' = Append(fed, data)
    /\ \E r \in RecOutcomes :
          /\ pc' = CASE r = "raise" -> "except"
                     [] r = "text" -> IF recording THEN "t90" ELSE "t87"
                     [] r = "empty" -> "t93"
                     [] r = "pending" -> "t104"
          /\ hist' = IF r = "raise"
                     THEN [hist EXCEPT !.detFail = TRUE, !.failRec = recording]
                     ELSE Judge(hist, VerdictOf(r))
    /\ UNCHANGED <<cfgVars, defined, data, loopVars, ioVars, files, exit,
                   consumed, writes>>

\* line 87
Test_SetRecording ==
    /\ pc = "t87"
    /\ recording' = TRUE
    /\ hist' = [hist EXCEPT !.everRec = TRUE, !.startFrame = data,
                            !.startedBy = "text"]
    /\ pc' = "t88"
    /\ UNCHANGED <<cfgVars, defined, data, audio_data, silence_timer,
                   silence_start, last_voice_activity, pre_speech_buffer,
                   current_time, ioVars, files, exit, consumed, fed, writes>>

\* line 88
Test_NewSegment ==
    /\ pc = "t88"
    /\ audio_data' = <<data>>
    /\ pc' = "t91"
    /\ UNCHANGED <<cfgVars, defined, data, recording, silence_timer,
                   silence_start, last_voice_activity, pre_speech_buffer,
                   current_time, ioVars, files, exit, consumed, fed, writes, hist>>

\* line 90
Test_AppendSpeech ==
    /\ pc = "t90"
    /\ audio_data' = Append(audio_data, data)
    /\ pc' = "t91"
    /\ UNCHANGED <<cfgVars, defined, data, recording, silence_timer,
                   silence_start, last_voice_activity, pre_speech_buffer,
                   current_time, ioVars, files, exit, consumed, fed, writes, hist>>

\* line 91
Test_ClearTimer ==
    /\ pc = "t91"
    /\ silence_timer' = None
    /\ pc' = "get"
    /\ UNCHANGED <<cfgVars, defined, data, recording, audio_data,
                   silence_start, last_voice_activity, pre_speech_buffer,
                   current_time, ioVars, files, exit, consumed, fed, writes, hist>>

\* Lines 93-95 without the elif branch: the timer is armed but never seen
\* to have run out (a faulty variant).
Test_Silence_NoStop ==
    /\ pc = "t93"
    /\ IF recording /\ silence_timer = None
       THEN /\ silence_timer' = now + TestSilence * samplerate
            /\ hist' = [hist EXCEPT !.armedAt = data]
       ELSE UNCHANGED <<silence_timer, hist>>
    /\ pc' = "get"
    /\ UNCHANGED <<cfgVars, defined, data, recording, audio_data,
                   silence_start, last_voice_activity, pre_speech_buffer,
                   current_time, ioVars, files, exit, consumed, fed, writes>>

\* Lines 93-95 arming the timer without testing recording (a faulty
\* variant).
Test_Silence_ArmIdle ==
    /\ pc = "t93"
    /\ IF silence_timer = None
       THEN /\ silence_timer' = now + TestSilence * samplerate
            /\ hist' = [hist EXCEPT !.armedAt = data]
            /\ pc' = "get"
       ELSE /\ UNCHANGED <<silence_timer, hist>>
            /\ pc' = IF recording /\ now > silence_timer THEN "t97" ELSE "get"
    /\ UNCHANGED <<cfgVars, defined, data, recording, audio_data,
                   silence_start, last_voice_activity, pre_speech_buffer,
                   current_time, ioVars, files, exit, consumed, fed, writes>>

\* lines 93-95: arm the timer, or see that it has run out, or neither
Test_Silence ==
    /\ pc = "t93"
    /\ IF recording /\ silence_timer = None
       THEN /\ silence_timer' = now + TestSilence * samplerate
            /\ hist' = [hist EXCEPT !.armedAt = data]
            /\ pc' = "get"
       ELSE /\ UNCHANGED <<silence_timer, hist>>
            /\ pc' = IF recording /\ silence_timer # None /\ now > silence_timer
                     THEN "t97" ELSE "get"
    /\ UNCHANGED <<cfgVars, defined, data, recording, audio_data,
                   silence_start, last_voice_activity, pre_speech_buffer,
                   current_time, ioVars, files, exit, consumed, fed, writes>>

\* Line 97 left out: recording stays True through the finalize (a faulty
\* variant).
Test_ClearRecording_Skip ==
    /\ pc = "t97"
    /\ pc' = "t98"
    /\ UNCHANGED <<cfgVars, defined, data, loopVars, ioVars, files, exit,
                   consumed, fed, writes, hist>>

\* line 97
Test_ClearRecording ==
    /\ pc = "t97"
    /\ recording' = FALSE
    /\ pc' = "t98"
    /\ UNCHANGED <<cfgVars, defined, data, audio_data, silence_timer,
                   silence_start, last_voice_activity, pre_speech_buffer,
                   current_time, ioVars, files, exit, consumed, fed, writes, hist>>

\* line 98
Test_Finalize ==
    /\ pc = "t98"
    /\ write_wave("dest", audio_data)
    /\ hist' = [hist EXCEPT !.destWrites = @ + 1]
    /\ pc' = "t99"
    /\ UNCHANGED <<cfgVars, defined, data, loopVars, ioVars, exit, consumed,
                   fed>>

\* lines 103-104
Test_AppendPending ==
    /\ pc = "t104"
    /\ audio_data' = IF recording THEN Append(audio_data, data) ELSE audio_data
    /\ pc' = "get"
    /\ UNCHANGED <<cfgVars, defined, data, recording, silence_timer,
                   silence_start, last_voice_activity, pre_speech_buffer,
                   current_time, ioVars, files, exit, consumed, fed, writes, hist>>

TestLoop ==
    \/ Test_AcceptWaveform \/ Test_SetRecording \/ Test_NewSegment
    \/ Test_AppendSpeech \/ Test_ClearTimer \/ Test_Silence
    \/ Test_ClearRecording \/ Test_Finalize \/ Test_AppendPending

\* ------------------------------------------------------ test2.py, the loop
\* lines 107-110, 115, 126
Test2_AcceptWaveform ==
    /\ pc = "a107"
    /\ fed' = Append(fed, data)
    /\ \E r \in RecOutcomes :
          /\ pc' = CASE r = "raise" -> "except"
                     [] r = "text" -> IF recording THEN "a113" ELSE "a112"
                     [] r = "empty" -> "a116"
                     [] r = "pending" -> "a128"
          /\ hist' = IF r = "raise"
                     THEN [hist EXCEPT !.detFail = TRUE, !.failRec = recording]
                     ELSE Judge(hist, VerdictOf(r))
    /\ UNCHANGED <<cfgVars, defined, data, loopVars, ioVars, files, exit,
                   consumed, writes>>

\* line 112
Test2_SetRecording ==
    /\ pc = "a112"
    /\ recording' = TRUE
    /\ hist' = [hist EXCEPT !.everRec = TRUE, !.startFrame = data,
                            !.startedBy = "text"]
    /\ pc' = "a113"
    /\ UNCHANGED <<cfgVars, defined, data, audio_data, silence_timer,
                   silence_start, last_voice_activity, pre_speech_buffer,
                   current_time, ioVars, files, exit, consumed, fed, writes>>

\* line 113
Test2_ClearTimer ==
    /\ pc = "a113"
    /\ silence_timer' = None
    /\ pc' = "a114"
    /\ UNCHANGED <<cfgVars, defined, data, recording, audio_data,
                   silence_start, last_voice_activity, pre_speech_buffer,
                   current_time, ioVars, files, exit, consumed, fed, writes, hist>>

\* line 114
Test2_AppendSpeech ==
    /\ pc = "a114"
    /\ audio_data' = Append(audio_data, data)
    /\ pc' = "get"
    /\ UNCHANGED <<cfgVars, defined, data, recording, silence_timer,
                   silence_start, last_voice_activity, pre_speech_buffer,
                   current_time, ioVars, files, exit, consumed, fed, writes, hist>>

\* lines 116-118
Test2_Silence ==
    /\ pc = "a116"
    /\ IF recording /\ silence_timer = None
       THEN /\ silence_timer' = now + silence * samplerate
            /\ hist' = [hist EXCEPT !.armedAt = data]
            /\ pc' = "get"
       ELSE /\ UNCHANGED <<silence_timer, hist>>
            /\ pc' = IF recording /\ silence_timer # None /\ now > silence_timer
                     THEN "a120" ELSE "get"
    /\ UNCHANGED <<cfgVars, defined, data, recording, audio_data,
                   silence_start, last_voice_activity, pre_speech_buffer,
                   current_time, ioVars, files, exit, consumed, fed, writes>>

\* line 120
Test2_ClearRecording ==
    /\ pc = "a120"
    /\ recording' = FALSE
    /\ pc' = "a121"
    /\ UNCHANGED <<cfgVars, defined, data, audio_data, silence_timer,
                   silence_start, last_voice_activity, pre_speech_buffer,
                   current_time, ioVars, files, exit, consumed, fed, writes, hist>>

\* line 121
Test2_WriteTemp ==
    /\ pc = "a121"
    /\ write_wave("temp", audio_data)
    /\ pc' = "a122"
    /\ UNCHANGED <<cfgVars, defined, data, loopVars, ioVars, exit, consumed,
                   fed, hist>>

\* line 122
Test2_Finalize ==
    /\ pc = "a122"
    /\ append_wave("temp", "dest")
    /\ hist' = [hist EXCEPT !.destWrites = @ + 1]
    /\ pc' = "a123"
    /\ UNCHANGED <<cfgVars, defined, data, loopVars, ioVars, exit, consumed,
                   fed, writes>>

\* lines 127-128
Test2_AppendPending ==
    /\ pc = "a128"
    /\ audio_data' = IF recording THEN Append(audio_data, data) ELSE audio_data
    /\ pc' = "get"
    /\ UNCHANGED <<cfgVars, defined, data, recording, silence_timer,
                   silence_start, last_voice_activity, pre_speech_buffer,
                   current_time, ioVars, files, exit, consumed, fed, writes, hist>>

Test2Loop ==
    \/ Test2_AcceptWaveform \/ Test2_SetRecording \/ Test2_ClearTimer
    \/ Test2_AppendSpeech \/ Test2_Silence \/ Test2_ClearRecording
    \/ Test2_WriteTemp \/ Test2_Finalize \/ Test2_AppendPending

\* ---------------------------------------------------- testson.py, the loop
\* Capacity of the pre-roll buffer: buffer_duration * args.samplerate // 8000
PreRollCap == (buffer_duration * samplerate) \div FrameSize

\* PushEvict with the eviction test off by one (a faulty variant).
PushEvict_OffByOne(xs, x, cap) ==
    IF Len(xs) + 1 > cap + 1 THEN Tail(Append(xs, x)) ELSE Append(xs, x)

\* xs.append(x); if len(xs) > cap: xs.pop(0)
PushEvict(xs, x, cap) ==
    IF Len(xs) + 1 > cap THEN Tail(Append(xs, x)) ELSE Append(xs, x)

\* lines 88-91
Testson_PreRoll ==
    /\ pc = "s88"
    /\ pre_speech_buffer' = IF ~recording
                            THEN PushEvict(pre_speech_buffer, data, PreRollCap)
                            ELSE pre_speech_buffer
    /\ pc' = "s93"
    /\ UNCHANGED <<cfgVars, defined, data, recording, audio_data,
                   silence_timer, silence_start, last_voice_activity,
                   current_time, ioVars, files, exit, consumed, fed, writes,
                   hist>>

\* lines 93, 94, 102, 103: is_speech(data) and the branch it selects
Testson_IsSpeech ==
    /\ pc = "s93"
    /\ \E r \in {"speech", "silence", "raise"} :
          /\ pc' = CASE r = "raise" -> "except"
                     [] r = "speech" -> IF recording THEN "s99" ELSE "s96"
                     [] r = "silence" -> IF recording THEN "s104" ELSE "s122"
          /\ hist' = IF r = "raise"
                     THEN [hist EXCEPT !.detFail = TRUE, !.failRec = recording]
                     ELSE Shape(Judge(hist, r), r = "speech")
    /\ UNCHANGED <<cfgVars, defined, data, loopVars, ioVars, files, exit,
                   consumed, fed, writes>>

\* line 96
Testson_SetRecording ==
    /\ pc = "s96"
    /\ recording' = TRUE
    /\ hist' = [hist EXCEPT !.everRec = TRUE, !.startFrame = data,
                            !.startedBy = "amplitude"]
    /\ pc' = "s97"
    /\ UNCHANGED <<cfgVars, defined, data, audio_data, silence_timer,
                   silence_start, last_voice_activity, pre_speech_buffer,
                   current_time, ioVars, files, exit, consumed, fed, writes>>

\* line 97
Testson_NewSegment ==
    /\ pc = "s97"
    /\ audio_data' = pre_speech_buffer \o <<data>>
    /\ pc' = "s100"
    /\ UNCHANGED <<cfgVars, defined, data, recording, silence_timer,
                   silence_start, last_voice_activity, pre_speech_buffer,
                   current_time, ioVars, files, exit, consumed, fed, writes, hist>>

\* line 99
Testson_AppendSpeech ==
    /\ pc = "s99"
    /\ audio_data' = Append(audio_data, data)
    /\ pc' = "s100"
    /\ UNCHANGED <<cfgVars, defined, data, recording, silence_timer,
                   silence_start, last_voice_activity, pre_speech_buffer,
                   current_time, ioVars, files, exit, consumed, fed, writes, hist>>

\* Line 100 left out: a speech verdict leaves the silence clock running
\* (a faulty variant).
Testson_ClearSilence_Stale ==
    /\ pc = "s100"
    /\ pc' = "s101"
    /\ UNCHANGED <<cfgVars, defined, data, loopVars, ioVars, files, exit,
                   consumed, fed, writes, hist>>

\* line 100
Testson_ClearSilence ==
    /\ pc = "s100"
    /\ silence_start' = None
    /\ pc' = "s101"
    /\ UNCHANGED <<cfgVars, defined, data, recording, audio_data,
                   silence_timer, last_voice_activity, pre_speech_buffer,
                   current_time, ioVars, files, exit, consumed, fed, writes,
                   hist>>

\* line 101
Testson_VoiceActivity ==
    /\ pc = "s101"
    /\ last_voice_activity' = now
    /\ pc' = "s122"
    /\ UNCHANGED <<cfgVars, defined, data, recording, audio_data,
                   silence_timer, silence_start, pre_speech_buffer,
                   current_time, ioVars, files, exit, consumed, fed, writes,
                   hist>>

\* lines 104-105
Testson_ArmSilence ==
    /\ pc = "s104"
    /\ IF silence_start = None
       THEN /\ silence_start' = now
            /\ hist' = [hist EXCEPT !.armedAt = data]
       ELSE UNCHANGED <<silence_start, hist>>
    /\ pc' = "s107"
    /\ UNCHANGED <<cfgVars, defined, data, recording, audio_data,
                   silence_timer, last_voice_activity, pre_speech_buffer,
                   current_time, ioVars, files, exit, consumed, fed, writes>>

\* line 107
Testson_AppendSilence ==
    /\ pc = "s107"
    /\ audio_data' = Append(audio_data, data)
    /\ pc' = "s108"
    /\ UNCHANGED <<cfgVars, defined, data, recording, silence_timer,
                   silence_start, last_voice_activity, pre_speech_buffer,
                   current_time, ioVars, files, exit, consumed, fed, writes, hist>>

\* Lines 108-109 going back to q.get() when the silence has not run out,
\* without reaching line 122 (a faulty variant).
Testson_CheckSilence_Skip ==
    /\ pc = "s108"
    /\ current_time' = now
    /\ pc' = IF now - silence_start > TestsonSilence * samplerate
             THEN "s112" ELSE "get"
    /\ UNCHANGED <<cfgVars, defined, data, recording, audio_data,
                   silence_timer, silence_start, last_voice_activity,
                   pre_speech_buffer, ioVars, files, exit, consumed, fed,
                   writes, hist>>

\* lines 108-109: current_time - silence_start > 3
Testson_CheckSilence ==
    /\ pc = "s108"
    /\ current_time' = now
    /\ pc' = IF now - silence_start > TestsonSilence * samplerate
             THEN "s112" ELSE "s122"
    /\ UNCHANGED <<cfgVars, defined, data, recording, audio_data,
                   silence_timer, silence_start, last_voice_activity,
                   pre_speech_buffer, ioVars, files, exit, consumed, fed,
                   writes, hist>>

\* int((end_time - last_voice_activity) * args.samplerate / 8000), with
\* end_time = min(last_voice_activity + 1, current_time); times in samples.
frames_to_keep(lva, ct) ==
    (Min(lva + PostRoll * samplerate, ct) - lva) \div FrameSize

\* audio_data[:len(audio_data) - frames_to_keep]
Trim(xs, k) == SliceTo(xs, Len(xs) - k)

\* lines 112-114; last_voice_activity + 1 raises TypeError while it is None
Testson_Trim ==
    /\ pc = "s112"
    /\ IF last_voice_activity = None
       THEN /\ pc' = "except"
            /\ UNCHANGED <<audio_data, hist>>
       ELSE LET k == frames_to_keep(last_voice_activity, current_time)
                kept == Trim(audio_data, k)
            IN  /\ audio_data' = kept
                /\ hist' = [hist EXCEPT !.removed =
                              SubSeq(audio_data, Len(kept) + 1, Len(audio_data))]
                /\ pc' = "s116"
    /\ UNCHANGED <<cfgVars, defined, data, recording, silence_timer,
                   silence_start, last_voice_activity, pre_speech_buffer,
                   current_time, ioVars, files, exit, consumed, fed, writes>>

\* line 116
Testson_ClearRecording ==
    /\ pc = "s116"
    /\ recording' = FALSE
    /\ pc' = "s117"
    /\ UNCHANGED <<cfgVars, defined, data, audio_data, silence_timer,
                   silence_start, last_voice_activity, pre_speech_buffer,
                   current_time, ioVars, files, exit, consumed, fed, writes, hist>>

\* line 117
Testson_Finalize ==
    /\ pc = "s117"
    /\ write_wave("dest", audio_data)
    /\ hist' = [hist EXCEPT !.destWrites = @ + 1]
    /\ pc' = "s118"
    /\ UNCHANGED <<cfgVars, defined, data, loopVars, ioVars, exit, consumed,
                   fed>>

\* lines 122-124
Testson_AcceptWaveform ==
    /\ pc = "s122"
    /\ fed' = Append(fed, data)
    /\ \E r \in RecOutcomes :
          /\ pc' = CASE r = "raise" -> "except"
                     [] r = "text" /\ ~recording -> "s126"
                     [] OTHER -> "get"
          /\ hist' = IF r = "raise"
                     THEN [hist EXCEPT !.detFail = TRUE, !.failRec = recording]
                     ELSE hist
    /\ UNCHANGED <<cfgVars, defined, data, loopVars, ioVars, files, exit,
                   consumed, writes>>

\* line 126
Testson_SetRecordingText ==
    /\ pc = "s126"
    /\ recording' = TRUE
    /\ hist' = [hist EXCEPT !.everRec = TRUE, !.startFrame = data,
                            !.startedBy = "text"]
    /\ pc' = "s127"
    /\ UNCHANGED <<cfgVars, defined, data, audio_data, silence_timer,
                   silence_start, last_voice_activity, pre_speech_buffer,
                   current_time, ioVars, files, exit, consumed, fed, writes>>

\* line 127
Testson_NewSegmentText ==
    /\ pc = "s127"
    /\ audio_data' = pre_speech_buffer \o <<data>>
    /\ pc' = "get"
    /\ UNCHANGED <<cfgVars, defined, data, recording, silence_timer,
                   silence_start, last_voice_activity, pre_speech_buffer,
                   current_time, ioVars, files, exit, consumed, fed, writes, hist>>

TestsonLoop ==
    \/ Testson_PreRoll \/ Testson_IsSpeech \/ Testson_SetRecording
    \/ Testson_NewSegment \/ Testson_AppendSpeech \/ Testson_ClearSilence
    \/ Testson_VoiceActivity \/ Testson_ArmSilence \/ Testson_AppendSilence
    \/ Testson_CheckSilence \/ Testson_Trim \/ Testson_ClearRecording
    \/ Testson_Finalize \/ Testson_AcceptWaveform
    \/ Testson_SetRecordingText \/ Testson_NewSegmentText

\* ------------------------------------------------------------- handlers
\* The handler without its "if recording:" guard (a faulty variant).
Handler_NoGuard ==
    IF ~defined
    THEN /\ exit' = "traceback"
         /\ UNCHANGED <<files, writes>>
    ELSE /\ exit' = "ok"
         /\ IF variant = "test2"
            THEN /\ writes' = Append(writes, [file |-> "temp", frames |-> audio_data])
                 /\ files' = [files EXCEPT
                                !["temp"] = WaveFile(samplerate, audio_data),
                                !["dest"] = WaveFile(samplerate, audio_data)]
            ELSE write_wave("dest", audio_data)

\* The KeyboardInterrupt handler: "if recording:" raises NameError while the
\* name is unbound (the traceback ends the process); otherwise the Segment
\* is written when recording is set, and parser.exit(0) follows.
\* test2.py writes the temporary file and then calls append_wave.
Handler ==
    IF ~defined
    THEN /\ exit' = "traceback"
         /\ UNCHANGED <<files, writes>>
    ELSE /\ exit' = "ok"
         /\ IF ~recording THEN UNCHANGED <<files, writes>>
            ELSE IF variant = "test2"
            THEN /\ writes' = Append(writes, [file |-> "temp", frames |-> audio_data])
                 /\ files' = [files EXCEPT
                                !["temp"] = WaveFile(samplerate, audio_data),
                                !["dest"] = WaveFile(samplerate, audio_data)]
            ELSE write_wave("dest", audio_data)

\* A KeyboardInterrupt is raised in the main thread at any point of the try
\* body: the stream is closed on the way out of the with block and the
\* handler runs to the end of the process.
KeyboardInterrupt ==
    /\ pc \in TryPcs
    /\ hist' = [hist EXCEPT !.interrupted = TRUE,
                            !.intPc = pc,
                            !.intRec = defined /\ recording,
                            !.intOpen = hist.everRec /\ writes = <<>>,
                            !.intAudio = audio_data,
                            !.destWrites = IF defined /\ recording
                                           THEN @ + 1 ELSE @]
    /\ Handler
    /\ pc' = "exited"
    /\ UNCHANGED <<cfgVars, defined, data, loopVars, ioVars, consumed, fed>>

\* The prints after the file is written, "break", the end of the with block
\* and of the script (test.py 99-101, test2.py 123-125, testson.py 118-120).
LeaveLoop ==
    /\ pc \in {"t99", "a123", "s118"}
    /\ pc' = "exited"
    /\ exit' = "ok"
    /\ UNCHANGED <<cfgVars, defined, data, loopVars, ioVars, files,
                   consumed, fed, writes, hist>>

\* "except Exception as e: parser.exit(type(e).__name__ + ': ' + str(e))":
\* the message is printed and the process ends with a failure status.
ExceptException ==
    /\ pc = "except"
    /\ pc' = "exited"
    /\ exit' = "error"
    /\ UNCHANGED <<cfgVars, defined, data, loopVars, ioVars, files,
                   consumed, fed, writes, hist>>

Next ==
    \/ QueryDevice \/ LoadModel \/ create_wave_header \/ OpenStream
    \/ InitState \/ callback \/ Get
    \/ TestLoop \/ Test2Loop \/ TestsonLoop
    \/ LeaveLoop
    \/ KeyboardInterrupt
    \/ ExceptException

Spec == Init /\ [][Next]_vars

\* testson.py alone.
NextStall ==
    \/ QueryDevice \/ LoadModel \/ OpenStream \/ InitState \/ callback \/ Get
    \/ TestsonLoop
    \/ LeaveLoop
    \/ KeyboardInterrupt
    \/ ExceptException

SpecStall == InitStall /\ [][NextStall]_vars


\* =================================================================== claims
\* The silence-triggered finalize has run to its end.
SilenceFinalized == pc = "exited" /\ exit = "ok" /\ ~hist.interrupted

\* One second of post-roll, in frames.
PostRollFrames == (PostRoll * samplerate) \div FrameSize

\* The silence clock of the running script.
Timer == IF variant = "testson" THEN silence_start ELSE silence_timer

\* C1 (as claimed): in testson.py, for a stream of nLead silent frames, then
\* nSpeech >= 1 speech frames (amplitude), then silent frames until the
\* silence-triggered finalize, the Segment written is the last
\* min(nLead, PreRollCap) leading silent frames, the speech frames once
\* each, and at most one second of the trailing silent frames.
C1_SegmentExact ==
    (/\ variant = "testson"
     /\ SilenceFinalized
     /\ hist.startedBy = "amplitude"
     /\ hist.phase = "tail")
    => /\ Len(writes) = 1
       /\ \E j \in 0..PostRollFrames :
             writes[1].frames =
                Range(hist.nLead - Min(hist.nLead, PreRollCap) + 1,
                      hist.nLead + hist.nSpeech + j)

\* The scenario of C2: 16000 Hz, 2 silent, 3 speech, 5 silent frames, each
\* processed as it arrives, and all ten of them processed (the consumer is
\* back at q.get()).
C2_ScenarioDone ==
    /\ variant = "testson"
    /\ samplerate = 16000
    /\ hist.lockstep
    /\ hist.phase = "tail" /\ hist.nLead = 2 /\ hist.nSpeech = 3 /\ hist.nTail = 5
    /\ hist.startedBy = "amplitude"
    /\ Len(consumed) = 10
    /\ pc = "get"

\* C2 (as claimed): after the scenario write_wave has been called exactly
\* once, with at most 2 pre-roll frames, the 3 speech frames and at most 2
\* trailing silent frames (at most 7 frames).
C2_ScenarioOneFinalize ==
    C2_ScenarioDone
    => /\ Len(writes) = 1
       /\ \E i \in 0..2 : \E j \in 0..2 :
             writes[1].frames = Range(3 - i, 5 + j)

\* C3 (as claimed): a KeyboardInterrupt raised while a Segment is in progress
\* (recording was started and nothing has been written yet) ends with
\* exactly one write_wave call, of the whole Segment accumulated when the
\* interrupt was raised, with nothing trimmed from it.
C3_InterruptFlushesOnce ==
    (hist.interrupted /\ hist.intOpen)
    => /\ Len(writes) = 1
       /\ writes[1].frames = hist.intAudio
       /\ hist.removed = <<>>

\* C4: while no frame has ever started a recording, write_wave has not been
\* called and the destination file is as it was at start; this covers the
\* run that a KeyboardInterrupt ends in that state, in all three scripts.
C4_IdleNeverWrites ==
    ~hist.everRec => (writes = <<>> /\ files.dest = hist.initDest)

C4_Witness ==
    /\ hist.interrupted /\ ~hist.everRec
    /\ pc = "exited" /\ exit = "ok"
    /\ Len(consumed) >= 2
    /\ hist.initDest.exists

C7_DetectorFailureAbsorbed ==
    hist.detFail => (pc \in LoopPcs \/ hist.interrupted)

\* C8 (as claimed): in test2.py, after a finalize to a destination that
\* existed (with the same sample rate), the destination holds its previous
\* frames followed by the Segment's.
C8_AppendKeepsOld ==
    (/\ variant = "test2"
     /\ SilenceFinalized
     /\ hist.initDest.exists
     /\ hist.initDest.rate = samplerate)
    => files.dest.frames = hist.initDest.frames \o writes[1].frames

\* C9 (as claimed): in test2.py, a finalize to a destination that existed
\* with another sample rate ends in an error and leaves the destination
\* unchanged.
C9_MismatchIsFatal ==
    (/\ variant = "test2"
     /\ pc = "exited"
     /\ ~hist.interrupted
     /\ writes # <<>>
     /\ hist.initDest.exists
     /\ hist.initDest.rate # samplerate)
    => (exit = "error" /\ files.dest = hist.initDest)

\* C10 (as claimed): a KeyboardInterrupt at any point of the run ends the
\* process with status 0, with the Segment written if recording was set.
C10_InterruptIsGraceful ==
    hist.interrupted
    => /\ exit = "ok"
       /\ hist.intRec => writes # <<>>


\* C11 (as claimed): every audio file that has been written holds at least
\* one frame: no write_wave call has an empty frame list, and neither the
\* temporary file nor a written destination is a zero-length file.
C11_NoEmptyWrite ==
    /\ \A i \in DOMAIN writes : writes[i].frames # <<>>
    /\ files.temp.exists => files.temp.frames # <<>>
    /\ files.dest # hist.initDest => files.dest.frames # <<>>

\* The number of blocks the callback delivers in this run.
FrameBound == IF variant = "testson" THEN MaxFrames ELSE MaxRecFrames

InSegment(f) == f >= hist.startFrame

\* C13 (as claimed): at the end of every frame step of a recording, the
\* frames of audio_data from the starting frame on are exactly the frames
\* dequeued since then, once each and in order.
C13_SegmentContiguous ==
    (recording /\ pc = "get")
    => SelectSeq(audio_data, InSegment) = Range(hist.startFrame, data)


\* The scripts that decide on the recognizer alone.
RecOnly == {"test", "test2"}

\* Positions from the write of the finalize to the end of the script.
WritePcs == {"t98", "t99", "a121", "a122", "a123", "s117", "s118"}
WrittenPcs == {"t99", "a123", "s118"}

C15_TextStartFinalizes ==
    (/\ variant = "testson"
     /\ hist.startedBy = "text"
     /\ hist.lastSpeech = 0
     /\ ~hist.detFail
     /\ ~hist.interrupted
     /\ pc = "exited")
    => (exit = "ok" /\ hist.destWrites = 1)

AllButLast(xs) == SubSeq(xs, 1, Len(xs) - 1)

\* C16 (as claimed): at the end of every frame step, the finalizing one
\* included, the frames given to rec.AcceptWaveform are the frames dequeued,
\* once each and in order.
C16_EveryFrameFed ==
    (pc = "get" \/ SilenceFinalized) => fed = consumed

\* C16 (amended): the frames given to rec.AcceptWaveform are the frames
\* dequeued, in order and once each, up to the frame being processed; every
\* completed frame step has fed its frame; test.py and test2.py feed a
\* frame first thing; in testson.py the frame on which the recording is
\* finalized is not fed.
C16_FedExceptFinalizing ==
    /\ fed \in {consumed, AllButLast(consumed)}
    /\ pc = "get" => fed = consumed
    /\ (variant \in RecOnly /\ pc \in LoopPcs \ {"t82", "a107"})
       => fed = consumed
    /\ (variant = "testson" /\ (pc \in WritePcs \/ SilenceFinalized))
       => (consumed # <<>> /\ fed = AllButLast(consumed))

C16_Witness ==
    /\ variant = "testson"
    /\ SilenceFinalized
    /\ Len(fed) >= 2

\* C17 (as claimed): the silence timer is set only while recording is set.
C17_TimerOnlyWhileRecording ==
    Timer # None => recording

\* C17 (amended): the silence timer is never set before a recording; it is
\* set without recording being set only from the point where the
\* silence-triggered finalize has cleared recording, and it then stays set
\* to the end of the process.
C17_TimerUntilFinalize ==
    /\ (Timer # None /\ ~recording)
       => (hist.everRec /\ pc \in WritePcs \cup {"exited"})
    /\ (pc \in WritePcs \/ SilenceFinalized) => (Timer # None /\ ~recording)

C17_Witness ==
    /\ SilenceFinalized
    /\ ~recording
    /\ Timer # None
    /\ hist.destWrites = 1

\* C18 (as claimed): the frames cut by the trailing trim of testson.py all
\* arrived after the last frame judged speech (so they are silent frames,
\* and no speech or pre-roll frame is among them).
C18_TrimOnlySilence ==
    \A i \in DOMAIN hist.removed : hist.removed[i] > hist.lastSpeech

\* C19: the destination is written at most once in a run; once it is
\* written, or once recording has been cleared again, the consumer is past
\* its loop: no further frame is processed and no second Segment starts.
C19_WrittenAtMostOnce ==
    /\ hist.destWrites <= 1
    /\ hist.destWrites = 1 => pc \in WrittenPcs \cup {"exited"}
    /\ (hist.everRec /\ ~recording) => pc \in WritePcs \cup {"exited"}

C19_Witness ==
    /\ hist.interrupted
    /\ hist.intPc \in WrittenPcs
    /\ hist.destWrites = 1
    /\ pc = "exited"

====
